---- MODULE Spec2Model ----
(***************************************************************************)
(* Model of the receipt scanner (src/scanner.py): token texts are          *)
(* sequences of one-character strings, boxes are <<x1, y1, x2, y2>> with   *)
(* integer pixel coordinates, and each regular expression of the source is *)
(* an operator deciding the same matches on those sequences.               *)
(***************************************************************************)
EXTENDS Integers, Sequences, FiniteSets, TLC

VARIABLES
    pc,             \* position of the modelled call
    raw,            \* parse_price_value: the argument
    value,          \* parse_price_value: first component of the result
    currency,       \* parse_price_value: second component of the result
    txt,            \* _normalize_vat_token: the argument
    vat,            \* _normalize_vat_token: the result
    results,        \* process_image: what ocr.predict returned
    min_confidence, \* process_image: the threshold, in percent
    all_tokens,     \* process_image: the token list
    all_texts,      \* process_image: the raw recognised texts
    rows,           \* group_rows' result
    items,          \* build_items_from_rows' result
    payload,        \* process_image: the record written to <stem>_items.json
    targets,        \* main: the images to process, as listed
    idx,            \* main: position of the batch loop in sorted(targets)
    attempted,      \* main: images handed to process_image, in order
    written,        \* main: images whose process_image call returned
    failing,        \* main: images whose process_image call raised
    instance,       \* OCRWrapper._instance
    constructed,    \* OCRWrapper: engines constructed so far
    calls           \* OCRWrapper: the get calls so far, with what each returned

vars == <<pc, raw, value, currency, txt, vat, results, min_confidence,
          all_tokens, all_texts, rows, items, payload, targets, idx,
          attempted, written, failing, instance, constructed, calls>>

None == "None"

\* ------------------------------------------------------------------ bounds

MaxPriceLen == 5
MaxGroups == 2
MaxVatLen == 3
MaxDetections == 3
MaxImages == 3
MaxRowTokens == 3
MaxCalls == 3

\* -------------------------------------------------------------- characters

\* Characters of the other scripts that the tables of the source name.
\* They are written as code points: a text is a sequence of characters, and a
\* character outside ASCII is the string naming its code point.
EuroSign == "U+20AC"
SmallUUmlaut == "U+00FC"
CapitalUUmlaut == "U+00DC"
CapitalAUmlaut == "U+00C4"
SharpS == "U+00DF"
CircledDigitOne == "U+2460"
GreekCapitalBeta == "U+0392"
GreekSmallBeta == "U+03B2"
GreekCapitalAlpha == "U+0391"
GreekSmallAlpha == "U+03B1"
GreekCapitalOmega == "U+03A9"
CyrillicCapitalVe == "U+0412"
CyrillicCapitalA == "U+0410"
CyrillicCapitalEs == "U+0421"
CyrillicSmallZhe == "U+0436"
CombiningDiaeresis == "U+0308"

DigitChars == <<"0", "1", "2", "3", "4", "5", "6", "7", "8", "9">>
LowerChars == <<"a", "b", "c", "d", "e", "f", "g", "h", "i", "j", "k", "l", "m",
                "n", "o", "p", "q", "r", "s", "t", "u", "v", "w", "x", "y", "z", SmallUUmlaut>>
UpperChars == <<"A", "B", "C", "D", "E", "F", "G", "H", "I", "J", "K", "L", "M",
                "N", "O", "P", "Q", "R", "S", "T", "U", "V", "W", "X", "Y", "Z", CapitalUUmlaut>>

Range(s) == {s[k] : k \in DOMAIN s}
Max(S) == CHOOSE m \in S : \A n \in S : n <= m
Min(S) == CHOOSE m \in S : \A n \in S : m <= n

GreekChars == {GreekCapitalBeta, GreekSmallBeta, GreekCapitalAlpha, GreekSmallAlpha,
               GreekCapitalOmega}
CyrillicChars == {CyrillicCapitalVe, CyrillicCapitalA, CyrillicCapitalEs, CyrillicSmallZhe}

IsDigit(c) == c \in Range(DigitChars)
IsAsciiLetter(c) == c \in (Range(LowerChars) \cup Range(UpperChars)) \ {SmallUUmlaut, CapitalUUmlaut}
IsSpace(c) == c = " "
\* \w of a str pattern: letters of any script, digits and the underscore.
IsWordChar(c) ==
    \/ IsDigit(c)
    \/ c \in Range(LowerChars) \cup Range(UpperChars)
    \/ c \in GreekChars \cup CyrillicChars
    \/ c \in {"_", SharpS, CapitalAUmlaut}

Upper(c) ==
    IF c \in Range(LowerChars)
    THEN UpperChars[CHOOSE k \in DOMAIN LowerChars : LowerChars[k] = c]
    ELSE c
Lower(c) ==
    IF c \in Range(UpperChars)
    THEN LowerChars[CHOOSE k \in DOMAIN UpperChars : UpperChars[k] = c]
    ELSE c
UpperStr(s) == [k \in DOMAIN s |-> Upper(s[k])]
LowerStr(s) == [k \in DOMAIN s |-> Lower(s[k])]

\* ------------------------------------------------------------ str helpers

\* s[a..b] as a sequence, empty when b < a.
Slice(s, a, b) == [k \in 1..(b - a + 1) |-> s[a + k - 1]]

\* str.strip()
Strip(s) ==
    LET keep == {k \in DOMAIN s : ~IsSpace(s[k])}
    IN  IF keep = {} THEN <<>> ELSE Slice(s, Min(keep), Max(keep))

\* The literal lit occurs in s at position i.
HasAt(s, i, lit) ==
    /\ i >= 1
    /\ i + Len(lit) - 1 <= Len(s)
    /\ \A k \in DOMAIN lit : s[i + k - 1] = lit[k]

\* The same, under the (?i) flag; lit is given in lower case.
HasAtI(s, i, lit) ==
    /\ i >= 1
    /\ i + Len(lit) - 1 <= Len(s)
    /\ \A k \in DOMAIN lit : Lower(s[i + k - 1]) = lit[k]

\* "sub in s"
Contains(s, sub) == \E i \in 1..(Len(s) + 1) : HasAt(s, i, sub)

\* str.rfind(c), 1-based, 0 when c does not occur.
RFind(s, c) ==
    LET at == {k \in DOMAIN s : s[k] = c}
    IN  IF at = {} THEN 0 ELSE Max(at)

\* str.replace(c, d), d a string.
Replace(s, c, d) ==
    LET RECURSIVE go(_)
        go(k) == IF k > Len(s) THEN <<>>
                 ELSE (IF s[k] = c THEN d ELSE <<s[k]>>) \o go(k + 1)
    IN  go(1)

\* Position after the run of characters satisfying the class that starts at i.
DigitRun(s, i) ==
    LET stop == {k \in i..Len(s) : ~IsDigit(s[k])}
    IN  (IF stop = {} THEN Len(s) + 1 ELSE Min(stop)) - i
SkipWs(s, i) ==
    LET stop == {k \in i..Len(s) : ~IsSpace(s[k])}
    IN  IF stop = {} THEN Len(s) + 1 ELSE Min(stop)

\* \b between s[k-1] and s[k], for k in 1..Len(s)+1.
WordAt(s, k) == k >= 1 /\ k <= Len(s) /\ IsWordChar(s[k])
WordBoundary(s, k) == WordAt(s, k - 1) # WordAt(s, k)

\* ---------------------------------------------------------- PRICE_CORE

IsSep(c) == c \in {".", ","}
\* [.,]\d{n} at position i
SepDigits(s, i, n) ==
    /\ i + n <= Len(s)
    /\ IsSep(s[i])
    /\ \A k \in 1..n : IsDigit(s[i + k])

\* Greatest number of (?:[.,]\d{3}) repetitions from position j.
GroupCount(s, j) ==
    LET RECURSIVE go(_)
        go(g) == IF SepDigits(s, j + 4 * g, 3) THEN go(g + 1) ELSE g
    IN  go(0)

\* Every way PRICE_CORE matches at i, as [rank, end]: the regex engine takes
\* the candidate of least rank that lets the rest of the pattern match.
\* end is the position after the match.
PriceCoreCands(s, i) ==
    LET run == DigitRun(s, i)
        alt1 == {[rank |-> (3 - d) * (Len(s) + 1) + (GroupCount(s, i + d) - g),
                  end |-> i + d + 4 * g + 3] :
                    <<d, g>> \in {dg \in (1..3) \X (0..Len(s)) :
                        /\ dg[1] <= run
                        /\ dg[2] <= GroupCount(s, i + dg[1])
                        /\ SepDigits(s, i + dg[1] + 4 * dg[2], 2)}}
        alt2 == {[rank |-> 4 * (Len(s) + 1) + (run - d), end |-> i + d + 3] :
                    d \in {e \in 1..run : SepDigits(s, i + e, 2)}}
    IN  alt1 \cup alt2

\* (?:EURO|\bEUR\b) at q under (?i): the position after it, 0 when absent.
CurrencyEnd(s, q) ==
    IF HasAt(s, q, <<EuroSign>>) THEN q + 1
    ELSE IF HasAtI(s, q, <<"e", "u", "r">>) /\ WordBoundary(s, q) /\ WordBoundary(s, q + 3)
         THEN q + 3
         ELSE 0

\* (?<!\d)\s*(?:EURO|\bEUR\b)?\s* from p: where PRICE_CORE has to start.
PrefixTarget(s, p) ==
    LET q == SkipWs(s, p)
        c == CurrencyEnd(s, q)
    IN  IF c # 0 THEN SkipWs(s, c) ELSE q
NotAfterDigit(s, p) == p = 1 \/ ~IsDigit(s[p - 1])

IsABC(c) == Upper(c) \in {"A", "B", "C"}

\* ------------------------------------------------------------- PRICE_RE

\* \s*(?:EURO|\bEUR\b)?(?:\s*[ABC])? from e: the position after the match.
PriceSuffixEnd(s, e) ==
    LET q == SkipWs(s, e)
        c == IF CurrencyEnd(s, q) # 0 THEN CurrencyEnd(s, q) ELSE q
        r == SkipWs(s, c)
    IN  IF r <= Len(s) /\ IsABC(s[r]) THEN r + 1 ELSE c

\* The start positions from which PRICE_RE matches.
PriceStarts(s) ==
    {p \in 1..Len(s) : NotAfterDigit(s, p) /\ PriceCoreCands(s, PrefixTarget(s, p)) # {}}

\* bool(PRICE_RE.search(s))
PriceSearch(s) == PriceStarts(s) # {}

\* PRICE_RE.search(s).group(0), for s with PriceSearch(s)
PriceGroup0(s) ==
    LET p == Min(PriceStarts(s))
        cands == PriceCoreCands(s, PrefixTarget(s, p))
        best == CHOOSE c \in cands : \A d \in cands : c.rank <= d.rank
    IN  Slice(s, p, PriceSuffixEnd(s, best.end) - 1)

\* ---------------------------------------------------- parse_price_value

\* A float read from decimal digits, exactly: the digits before the point
\* without leading zeros, those after it without trailing zeros.
StripLeadingZeros(d) ==
    LET nz == {k \in DOMAIN d : d[k] # "0"}
    IN  IF nz = {} THEN <<>> ELSE Slice(d, Min(nz), Len(d))
StripTrailingZeros(d) ==
    LET nz == {k \in DOMAIN d : d[k] # "0"}
    IN  IF nz = {} THEN <<>> ELSE Slice(d, 1, Max(nz))
Float(neg, ip, fp) ==
    [some |-> TRUE,
     neg |-> neg /\ (StripLeadingZeros(ip) # <<>> \/ StripTrailingZeros(fp) # <<>>),
     ip |-> StripLeadingZeros(ip), fp |-> StripTrailingZeros(fp)]
\* None where a float is expected.
NoValue == [some |-> FALSE, neg |-> FALSE, ip |-> <<>>, fp |-> <<>>]

\* re.search(r'\d{1,3}\,\d{3}', s)
ThousandsComma(s) ==
    \E k \in 2..Len(s) :
        /\ s[k] = ","
        /\ IsDigit(s[k - 1])
        /\ k + 3 <= Len(s)
        /\ \A j \in 1..3 : IsDigit(s[k + j])

\* [-+]?\d*\.?\d+|\d+ at p: the float the matched text reads as, NoValue when
\* the pattern does not match at p.
NumberAt(s, p) ==
    LET signed == p <= Len(s) /\ s[p] \in {"-", "+"}
        q == IF signed THEN p + 1 ELSE p
        n1 == DigitRun(s, q)
        dot == q + n1
        n2 == IF dot <= Len(s) /\ s[dot] = "." THEN DigitRun(s, dot + 1) ELSE 0
        neg == signed /\ s[p] = "-"
    IN  IF n2 > 0
        THEN Float(neg, Slice(s, q, q + n1 - 1), Slice(s, dot + 1, dot + n2))
        ELSE IF n1 > 0
             THEN Float(neg, Slice(s, q, q + n1 - 1), <<>>)
             ELSE NoValue

\* float(re.findall(r'[-+]?\d*\.?\d+|\d+', s)[0]), NoValue when findall
\* returns []
FirstNumber(s) ==
    LET at == {p \in 1..Len(s) : NumberAt(s, p).some}
    IN  IF at = {} THEN NoValue ELSE NumberAt(s, Min(at))

\* NormalizeSeparators with the comma always read as the decimal point.
NormalizeSeparators_CommaDecimal(s) == Replace(s, ",", <<".">>)

\* The locale decision of parse_price_value: the text the number is read from.
NormalizeSeparators(s) ==
    IF RFind(s, ",") > RFind(s, ".")
    THEN Replace(Replace(s, ".", <<>>), ",", <<".">>)
    ELSE IF Contains(s, <<",">>) /\ ThousandsComma(s)
         THEN Replace(s, ",", <<>>)
         ELSE Replace(s, ",", <<".">>)

parse_price_value(r) ==
    LET cur == "EUR"
        s == NormalizeSeparators(Strip(r))
    IN  <<FirstNumber(s), cur>>

\* The result in integer cents, for a non-negative value of at most two
\* decimals and few digits.
DigitVal(c) == (CHOOSE k \in DOMAIN DigitChars : DigitChars[k] = c) - 1
DigitsToNat(d) ==
    LET RECURSIVE go(_)
        go(k) == IF k = 0 THEN 0 ELSE 10 * go(k - 1) + DigitVal(d[k])
    IN  go(Len(d))
Cents(v) ==
    100 * DigitsToNat(v.ip)
    + DigitsToNat(v.fp \o [k \in 1..(2 - Len(v.fp)) |-> "0"])
HasCents(v) == v.some /\ ~v.neg /\ Len(v.fp) <= 2 /\ Len(v.ip) <= 6

\* ------------------------------------------------- the price inputs

\* All strings over alphabet of length at most n.
Strings(alphabet, n) == UNION {[1..k -> alphabet] : k \in 0..n}

PriceAlphabet == {"1", "2", ",", "."}
PriceExamples ==
    { <<"1", "2", ",", "9", "9">>,
      <<"1", ".", "2", "3", "4", ",", "5", "6">>,
      <<"1", "2", ".", "9", "9">>,
      <<"a", "b", "c">>,
      <<" ", "2", ",", "4", "9", " ", "A">>,
      <<"E", "U", "R", " ", "2", ",", "4", "9">> }
\* The texts PRICE_CORE is written for: a lead, groups of three, two decimals.
RECURSIVE Grouped(_)
Grouped(n) ==
    IF n = 0 THEN {<<>>}
    ELSE {g \o <<sep, "2", "3", "4">> : g \in Grouped(n - 1), sep \in {".", ","}}
PriceShaped ==
    {lead \o g \o <<sep, "5", "6">> :
        lead \in {<<"1">>, <<"1", "2">>, <<"1", "2", "3">>},
        g \in UNION {Grouped(n) : n \in 0..MaxGroups},
        sep \in {".", ","}}
PriceInputs == PriceExamples \cup PriceShaped \cup Strings(PriceAlphabet, MaxPriceLen)

\* ------------------------------------------------------- VAT normalization

\* _VISUAL_MAP, on the characters of the model that are among its keys.
VisualMap(ch) ==
    CASE ch \in {GreekCapitalBeta, CyrillicCapitalVe, "8", "3", SharpS} -> "B"
      [] ch \in {CyrillicCapitalA, GreekCapitalAlpha, GreekSmallAlpha} -> "A"
      [] ch \in {CyrillicCapitalEs} -> "C"
      [] ch = "0" -> "O"
      [] ch \in {"1", "l"} -> "I"
      [] OTHER -> None

\* unicodedata.name(ch) contains GREEK and BETA / CYRILLIC and VE / CYRILLIC
\* and A: every Cyrillic letter is named CAPITAL or SMALL, which hold an A.
NameIsGreekBeta(ch) == ch \in {GreekCapitalBeta, GreekSmallBeta}
NameIsCyrillic(ch) == ch \in CyrillicChars
NameHasVE(ch) == ch = CyrillicCapitalVe

\* _map_char_to_abc without the lookup in _VISUAL_MAP.
_map_char_to_abc_NoVisualMap(ch) ==
    IF Upper(ch) \in {"A", "B", "C"} THEN Upper(ch)
    ELSE IF NameIsGreekBeta(ch) THEN "B"
    ELSE IF NameIsCyrillic(ch) THEN (IF NameHasVE(ch) THEN "B" ELSE "A")
    ELSE None

_map_char_to_abc(ch) ==
    IF Upper(ch) \in {"A", "B", "C"} THEN Upper(ch)
    ELSE IF VisualMap(ch) # None THEN VisualMap(ch)
    ELSE IF NameIsGreekBeta(ch) THEN "B"
    ELSE IF NameIsCyrillic(ch) THEN (IF NameHasVE(ch) THEN "B" ELSE "A")
    ELSE None

\* unicodedata.normalize('NFKD', ch), for one character
NFKDChar(ch) ==
    CASE ch = CapitalAUmlaut -> <<"A", CombiningDiaeresis>>
      [] ch = SmallUUmlaut -> <<"u", CombiningDiaeresis>>
      [] ch = CapitalUUmlaut -> <<"U", CombiningDiaeresis>>
      [] ch = CircledDigitOne -> <<"1">>
      [] OTHER -> <<ch>>
\* unicodedata.category(ch)[0] == 'M'
IsMark(ch) == ch = CombiningDiaeresis

\* [0-9A-Za-zͰ-ϿЀ-ӿ]
IsKeptChar(ch) ==
    IsDigit(ch) \/ IsAsciiLetter(ch) \/ ch \in GreekChars \cup CyrillicChars

\* The text after NFKD and the removal of combining marks.
Decomposed(s) ==
    LET notMark(c) == ~IsMark(c)
        RECURSIVE go(_)
        go(k) == IF k > Len(s) THEN <<>>
                 ELSE SelectSeq(NFKDChar(s[k]), notMark) \o go(k + 1)
    IN  go(1)
\* s_alnum
Cleaned(s) == SelectSeq(s, IsKeptChar)

\* "a or b" on optional values: a unless it is None.
OrElse(a, b) == IF a # None THEN a ELSE b

\* The fallbacks of _normalize_vat_token, letters being s_alnum without its
\* digits.
LetterFallback(s_alnum, letters) ==
    IF Len(s_alnum) = 1 /\ ~IsDigit(s_alnum[1]) THEN "B"
    ELSE IF letters # <<>>
         THEN (IF Upper(letters[1]) \in {"A", "B", "C"} THEN Upper(letters[1])
               ELSE IF Len(letters) <= 2 THEN "B" ELSE None)
    ELSE None

\* _normalize_vat_token from the mapping loop on, hits being the positions of
\* s_alnum that map to A, B or C.
FirstMapped(s_alnum, hits) ==
    IF hits # {} THEN _map_char_to_abc(s_alnum[Min(hits)])
    ELSE LetterFallback(s_alnum, SelectSeq(s_alnum, LAMBDA c : ~IsDigit(c)))

\* _normalize_vat_token for the stripped and decomposed text s.
NormalizeCleaned(s, s_alnum) ==
    IF s_alnum = <<>>
    THEN (IF \E k \in DOMAIN s : ~IsDigit(s[k]) THEN "B" ELSE None)
    ELSE FirstMapped(s_alnum,
             {k \in DOMAIN s_alnum : _map_char_to_abc(s_alnum[k]) \in {"A", "B", "C"}})

NormalizeDecomposed(s) == NormalizeCleaned(s, Cleaned(s))

NormalizeStripped(s0) == IF s0 = <<>> THEN None ELSE NormalizeDecomposed(Decomposed(s0))

_normalize_vat_token(t) == NormalizeStripped(Strip(t))

\* ---------------------------------------------------------------- geometry

\* A token is [id, text, score, box]: id tells apart the objects the source
\* compares with "is"; score is in percent, NoScore for None; box is
\* <<x1, y1, x2, y2>>.
NoScore == -1
Tok(id, text, score, box) == [id |-> id, text |-> text, score |-> score, box |-> box]

Max2(a, b) == IF a >= b THEN a ELSE b
Min2(a, b) == IF a <= b THEN a ELSE b
Abs(a) == IF a >= 0 THEN a ELSE -a

\* vertical_overlap_ratio(a, b) as the fraction <<inter, union>>; the source
\* returns 0.0 when union is not positive.
vertical_overlap_ratio(a, b) ==
    LET inter == Max2(0, Min2(a[4], b[4]) - Max2(a[2], b[2]))
        union == (a[4] - a[2]) + (b[4] - b[2]) - inter
    IN  <<inter, union>>
\* vertical_overlap_ratio(a, b) >= num/100, and > num/100
OverlapAtLeast(a, b, num) ==
    LET r == vertical_overlap_ratio(a, b)
    IN  IF r[2] > 0 THEN 100 * r[1] >= num * r[2] ELSE 0 >= num
OverlapAbove(a, b, num) ==
    LET r == vertical_overlap_ratio(a, b)
    IN  IF r[2] > 0 THEN 100 * r[1] > num * r[2] ELSE 0 > num

\* The union bounding box of a non-empty sequence of tokens.
UnionBox(toks) ==
    << Min({toks[k].box[1] : k \in DOMAIN toks}), Min({toks[k].box[2] : k \in DOMAIN toks}),
       Max({toks[k].box[3] : k \in DOMAIN toks}), Max({toks[k].box[4] : k \in DOMAIN toks}) >>

\* sorted(seq, key): a stable sort by a key that is a pair or a number;
\* Less(a, b) is key(a) < key(b).
LessYX(a, b) == a.box[2] < b.box[2] \/ (a.box[2] = b.box[2] /\ a.box[1] < b.box[1])
LessX(a, b) == a.box[1] < b.box[1]

\* Insert t after the last element that is not greater than it.
InsertYX(sorted, t) ==
    LET after == {k \in DOMAIN sorted : ~LessYX(t, sorted[k])}
        n == IF after = {} THEN 0 ELSE Max(after)
    IN  SubSeq(sorted, 1, n) \o <<t>> \o SubSeq(sorted, n + 1, Len(sorted))
InsertX(sorted, t) ==
    LET after == {k \in DOMAIN sorted : ~LessX(t, sorted[k])}
        n == IF after = {} THEN 0 ELSE Max(after)
    IN  SubSeq(sorted, 1, n) \o <<t>> \o SubSeq(sorted, n + 1, Len(sorted))
RECURSIVE SortYX(_)
SortYX(toks) ==
    IF toks = <<>> THEN <<>>
    ELSE InsertYX(SortYX(SubSeq(toks, 1, Len(toks) - 1)), toks[Len(toks)])
RECURSIVE SortX(_)
SortX(toks) ==
    IF toks = <<>> THEN <<>>
    ELSE InsertX(SortX(SubSeq(toks, 1, Len(toks) - 1)), toks[Len(toks)])

\* --------------------------------------------------------------- group_rows

OverlapThresh == 45

\* The loop body with the last fitting row taken instead of the first.
PlaceToken_LastFit(rs, tok) ==
    LET fit == {k \in DOMAIN rs : OverlapAtLeast(tok.box, UnionBox(rs[k]), OverlapThresh)}
    IN  IF fit = {} THEN Append(rs, <<tok>>)
        ELSE [rs EXCEPT ![Max(fit)] = Append(@, tok)]

\* The loop body of group_rows: tok goes to the first row whose bounding box
\* it overlaps enough, else to a new last row.
PlaceToken(rs, tok) ==
    LET fit == {k \in DOMAIN rs : OverlapAtLeast(tok.box, UnionBox(rs[k]), OverlapThresh)}
    IN  IF fit = {} THEN Append(rs, <<tok>>)
        ELSE [rs EXCEPT ![Min(fit)] = Append(@, tok)]

group_rows(toks) ==
    LET ordered == SortYX(toks)
        RECURSIVE place(_)
        place(n) == IF n = 0 THEN <<>> ELSE PlaceToken(place(n - 1), ordered[n])
        placed == place(Len(ordered))
    IN  [k \in DOMAIN placed |-> SortX(placed[k])]

\* ------------------------------------------------------- the tag of a price

\* \s*(?:EURO|\bEUR\b)?\s*([ABC])\b from e: the letter matched, None when the
\* rest of PRICE_WITH_VAT_RE does not match there.
VatSuffixTag(s, e) ==
    LET q == SkipWs(s, e)
        c == CurrencyEnd(s, q)
        r == IF c # 0 THEN SkipWs(s, c) ELSE q
    IN  IF r <= Len(s) /\ IsABC(s[r]) /\ WordBoundary(s, r + 1) THEN s[r] ELSE None

\* PRICE_WITH_VAT_RE.search(s).group(2), None when there is no match: the
\* leftmost start and, from it, the first way PRICE_CORE matches that is
\* followed by a tag letter.
TaggedCands(s, p) ==
    {c \in PriceCoreCands(s, PrefixTarget(s, p)) : VatSuffixTag(s, c.end) # None}
BestCand(cands) == CHOOSE c \in cands : \A d \in cands : c.rank <= d.rank
TagFromStarts(s, starts) ==
    IF starts = {} THEN None
    ELSE VatSuffixTag(s, BestCand(TaggedCands(s, Min(starts))).end)
PriceWithVatGroup2(s) ==
    TagFromStarts(s, {p \in 1..Len(s) : NotAfterDigit(s, p) /\ TaggedCands(s, p) # {}})

\* m.group(2).upper() for a match, None for none
UpperTag(g) == IF g = None THEN None ELSE Upper(g)

_has_inline_vat_tag(text) ==
    OrElse(UpperTag(PriceWithVatGroup2(text)), _normalize_vat_token(text))

TagRightTolerance == 40
TagMinOverlap == 15
BelowTolerance == 40
AboveTolerance == 50
SearchAboveRows == 3
SearchBelowRows == 1

\* Twice the horizontal centre of a box.
Centre2(box) == box[1] + box[3]

\* neighbors.sort(key=distance of the centres): a stable sort of the row
\* without the price token.
NeighborsByDistance(price_tok, row) ==
    LET others == SelectSeq(row, LAMBDA t : t.id # price_tok.id)
        dist(t) == Abs(Centre2(t.box) - Centre2(price_tok.box))
        RECURSIVE sort(_)
        sort(n) ==
            IF n = 0 THEN <<>>
            ELSE LET done == sort(n - 1)
                     t == others[n]
                     after == {k \in DOMAIN done : dist(done[k]) <= dist(t)}
                     m == IF after = {} THEN 0 ELSE Max(after)
                 IN  SubSeq(done, 1, m) \o <<t>> \o SubSeq(done, m + 1, Len(done))
    IN  sort(Len(others))

\* The test a same-row token has to pass to give its tag.
SameRowTagOk(price_tok, t) ==
    /\ _normalize_vat_token(t.text) # None
    /\ t.box[1] <= price_tok.box[3] + TagRightTolerance
    /\ OverlapAtLeast(price_tok.box, t.box, TagMinOverlap)

\* The tag of the first of the neighbors nb that passes, None when none does.
FirstNeighborTag(price_tok, nb) ==
    LET hit == {k \in DOMAIN nb : SameRowTagOk(price_tok, nb[k])}
    IN  IF hit = {} THEN None ELSE _normalize_vat_token(nb[Min(hit)].text)

\* The tag of the nearest same-row token that passes, None when none does.
SameRowTag(price_tok, row) ==
    FirstNeighborTag(price_tok, NeighborsByDistance(price_tok, row))

BelowTagOk(price_tok, t) ==
    LET px1 == price_tok.box[1]
        px2 == price_tok.box[3]
        py2 == price_tok.box[4]
        p_h == Max2(1, price_tok.box[4] - price_tok.box[2])
    IN  /\ _normalize_vat_token(t.text) # None
        /\ 2 * (px1 - BelowTolerance) <= Centre2(t.box)
        /\ Centre2(t.box) <= 2 * (px2 + BelowTolerance)
        /\ 0 <= t.box[2] - py2
        /\ 2 * (t.box[2] - py2) <= Max2(16, 3 * p_h)

AboveTagOk(price_tok, t, u) ==
    LET px1 == price_tok.box[1]
        px2 == price_tok.box[3]
        py1 == price_tok.box[2]
        p_h == Max2(1, price_tok.box[4] - price_tok.box[2])
    IN  /\ _normalize_vat_token(t.text) # None
        /\ 2 * (px1 - AboveTolerance) <= Centre2(t.box)
        /\ Centre2(t.box) <= 2 * (px2 + AboveTolerance)
        /\ 0 <= py1 - t.box[4]
        /\ 10 * (py1 - t.box[4]) <= Max2(120, 18 * p_h * u)

\* The rows below and the rows above: the hits as <<distance, position in the
\* row>>, the first one in the order the source visits them giving the tag.
FirstHit(hit) ==
    CHOOSE a \in hit : \A b \in hit : a[1] < b[1] \/ (a[1] = b[1] /\ a[2] <= b[2])

\* The tag of the first hit, rows being counted from ridx in direction dir.
TagOfFirstHit(rs, ridx, dir, hit) ==
    IF hit = {} THEN None
    ELSE _normalize_vat_token(rs[ridx + dir * FirstHit(hit)[1]][FirstHit(hit)[2]].text)

BelowTag(price_tok, rs, ridx) ==
    TagOfFirstHit(rs, ridx, 1,
        UNION {{<<d, k>> : k \in {j \in DOMAIN rs[ridx + d] :
                                    BelowTagOk(price_tok, rs[ridx + d][j])}} :
                  d \in {e \in 1..SearchBelowRows : ridx + e <= Len(rs)}})

AboveTag(price_tok, rs, ridx) ==
    TagOfFirstHit(rs, ridx, -1,
        UNION {{<<u, k>> : k \in {j \in DOMAIN rs[ridx - u] :
                                    AboveTagOk(price_tok, rs[ridx - u][j], u)}} :
                  u \in {e \in 1..SearchAboveRows : ridx - e >= 1}})

_nearby_vat_tag_for_price_rows(price_tok, rs, ridx) ==
    OrElse(SameRowTag(price_tok, rs[ridx]),
           OrElse(BelowTag(price_tok, rs, ridx), AboveTag(price_tok, rs, ridx)))

\* ------------------------------------------------------ the name of a price

UnitsAll == {<<"k", "g">>, <<"g">>, <<"1", "0", "0", "g">>, <<"l">>, <<"m", "l">>,
             <<"s", "t", "k">>, <<"s", "t", SmallUUmlaut, "c", "k">>}
UnitsSlash == {<<"k", "g">>, <<"g">>, <<"1", "0", "0", "g">>, <<"l">>, <<"m", "l">>}

\* bool(UNIT_PRICE_RE.search(s))
UnitPriceSearch(s) ==
    \E i \in DOMAIN s :
        \/ /\ s[i] = EuroSign
           /\ LET j == SkipWs(s, i + 1)
              IN  /\ HasAt(s, j, <<"/">>)
                  /\ \E u \in UnitsAll : HasAtI(s, SkipWs(s, j + 1), u)
        \/ \E w \in {<<"p", "r", "o">>, <<"p", "e", "r">>} :
               /\ HasAtI(s, i, w)
               /\ \E u \in UnitsAll : HasAtI(s, SkipWs(s, i + 3), u)
        \/ /\ s[i] = "/"
           /\ \E u \in UnitsSlash : HasAtI(s, i + 1, u)

_is_unit_price_context(row) ==
    LET RECURSIVE join(_)
        join(k) == IF k > Len(row) THEN <<>>
                   ELSE row[k].text \o (IF k < Len(row) THEN <<" ">> ELSE <<>>) \o join(k + 1)
    IN  UnitPriceSearch(join(1))

\* IGNORE_NAME_TOKENS_RE.fullmatch(s)
IgnoreNameToken(s) ==
    s \in {<<EuroSign>>, <<"E", "U", "R">>, <<"A">>, <<"B">>, <<"C">>, <<CircledDigitOne>>}

\* The keywords of BAD_NAME_KEYWORDS_RE that are plain words.
BadWords ==
    { <<"s", "u", "m", "m", "e">>,
      <<"z", "w", "i", "s", "c", "h", "e", "n", "s", "u", "m", "m", "e">>,
      <<"g", "e", "s", "a", "m", "t">>,
      <<"t", "o", "t", "a", "l">>,
      <<"r", "u", "n", "d", "u", "n", "g">>,
      <<"r", "a", "b", "a", "t", "t">>,
      <<"p", "f", "a", "n", "d">>,
      <<"k", "u", "n", "d", "e", "n", "b", "e", "l", "e", "g">>,
      <<"k", "a", "s", "s", "e", "n", "b", "o", "n">>,
      <<"k", "a", "s", "s", "e", "n", "b", "e", "l", "e", "g">>,
      <<"u", "i", "d">>,
      <<"s", "t", "e", "u", "e", "r">>,
      <<"s", "t", "e", "u", "e", "r", "n">>,
      <<"m", "w", "s", "t">>,
      <<"u", "s", "t">> }

\* The positions after the matches of one alternative of
\* BAD_NAME_KEYWORDS_RE that start at i.
BadKeywordEnds(s, i) ==
    LET plain == {i + Len(w) : w \in {v \in BadWords : HasAtI(s, i, v)}}
        zahlen == IF HasAtI(s, i, <<"z", "u">>)
                     /\ HasAtI(s, SkipWs(s, i + 2), <<"z", "a", "h", "l", "e", "n">>)
                  THEN {SkipWs(s, i + 2) + 6} ELSE {}
        stop == {k \in (i + 2)..Len(s) : ~(s[k] = "-" \/ IsSpace(s[k]))}
        gap == IF stop = {} THEN Len(s) + 1 ELSE Min(stop)
        cash == IF HasAtI(s, i, <<"e", "c">>) /\ HasAtI(s, gap, <<"c", "a", "s", "h">>)
                THEN {gap + 4} ELSE {}
        eur == IF HasAtI(s, i, <<"e", "u", "r">>) /\ i + 3 = Len(s) + 1
               THEN {i + 3} ELSE {}
    IN  plain \cup zahlen \cup cash \cup eur

\* bool(BAD_NAME_KEYWORDS_RE.search(s))
BadKeywordSearch(s) ==
    \E i \in DOMAIN s :
        /\ WordBoundary(s, i)
        /\ \E e \in BadKeywordEnds(s, i) : WordBoundary(s, e)

\* _is_bad_name without the keyword blacklist.
_is_bad_name_NoKeywords(name) ==
    LET n == Strip(name)
    IN  \/ n = <<>>
        \/ UpperStr(n) \in {<<"E", "U", "R">>, <<EuroSign>>}

_is_bad_name(name) ==
    LET n == Strip(name)
    IN  \/ n = <<>>
        \/ UpperStr(n) \in {<<"E", "U", "R">>, <<EuroSign>>}
        \/ BadKeywordSearch(n)

\* bool(QTY_ONLY_RE.match(s))
QtyOnlyMatch(s) ==
    LET p == SkipWs(s, 1)
        n == DigitRun(s, p)
        q == SkipWs(s, p + n)
    IN  /\ n >= 1
        /\ \E w \in {<<"s", "t", "k">>, <<"s", "t", SmallUUmlaut, "c", "k">>, <<"x">>} :
               HasAtI(s, q, w) /\ WordBoundary(s, q + Len(w))

\* len(s.split())
WordCount(s) ==
    Cardinality({k \in DOMAIN s : ~IsSpace(s[k]) /\ (k = 1 \/ IsSpace(s[k - 1]))})

\* The tokens whose text _build_name_from_left_tokens keeps.
NameParts(toks) ==
    SelectSeq(toks, LAMBDA t : Strip(t.text) # <<>> /\ ~IgnoreNameToken(Strip(t.text)))

_build_name_from_left_tokens(toks) ==
    LET parts == NameParts(toks)
        RECURSIVE join(_)
        join(k) == IF k > Len(parts) THEN <<>>
                   ELSE Strip(parts[k].text)
                        \o (IF k < Len(parts) THEN <<" ">> ELSE <<>>) \o join(k + 1)
    IN  Strip(join(1))

NameLeftGap == 2
NameCentreTolerance == 35
NameMinOverlap == 5
NameRowsAbove == 3

_find_name_tokens_for_price(pt, rs, ridx) ==
    LET notPrice(t) == ~PriceSearch(t.text)
        notUnit(t) == ~UnitPriceSearch(t.text)
        left_same_row ==
            SelectSeq(rs[ridx], LAMBDA t :
                /\ t.id # pt.id
                /\ t.box[3] <= pt.box[1] - NameLeftGap
                /\ notPrice(t) /\ notUnit(t))
        above(i) ==
            SelectSeq(rs[ridx - i], LAMBDA t :
                /\ notPrice(t) /\ notUnit(t)
                /\ Centre2(t.box) < Centre2(pt.box) + 2 * NameCentreTolerance)
        found == {i \in 1..NameRowsAbove : ridx - i >= 1 /\ above(i) # <<>>}
        prev == IF ridx - 1 >= 1
                THEN SelectSeq(rs[ridx - 1], LAMBDA t :
                        notPrice(t) /\ OverlapAtLeast(t.box, pt.box, NameMinOverlap))
                ELSE <<>>
    IN  IF left_same_row # <<>> THEN left_same_row
        ELSE IF found # {} THEN above(Min(found))
        ELSE prev

\* ------------------------------------------------- build_items_from_rows

\* ResolveVat with an unresolved tag defaulting to B instead of dropping the
\* price.
ResolveVat_DefaultB(pt, rs, ridx) ==
    IF _has_inline_vat_tag(pt.text) # None
    THEN _has_inline_vat_tag(pt.text)
    ELSE IF _nearby_vat_tag_for_price_rows(pt, rs, ridx) # None
         THEN _nearby_vat_tag_for_price_rows(pt, rs, ridx)
         ELSE "B"

\* The tag build_items_from_rows resolves for the price token pt of row ridx.
ResolveVat(pt, rs, ridx) ==
    OrElse(_has_inline_vat_tag(pt.text), _nearby_vat_tag_for_price_rows(pt, rs, ridx))

\* The box put into an item as nameBox.
NameBoxOf(name_tokens) == UnionBox(name_tokens)

\* One pass of the inner loop: the items that the price token pt of row ridx
\* adds, none or one.
EmitItem(pt, ridx, unit_ctx, vt, name_tokens, name, raw_price, parsed) ==
    IF vt = None THEN <<>>
    ELSE IF unit_ctx THEN <<>>
    ELSE IF name_tokens = <<>> THEN <<>>
    ELSE IF _is_bad_name(name) THEN <<>>
    ELSE IF QtyOnlyMatch(name) /\ WordCount(name) <= 3 THEN <<>>
    ELSE IF ~parsed[1].some THEN <<>>
    ELSE << [rowIndex |-> ridx - 1,
             name |-> name,
             nameBox |-> NameBoxOf(name_tokens),
             price |-> [raw |-> raw_price, value |-> parsed[1], currency |-> "EUR",
                        vatTag |-> vt],
             priceBox |-> pt.box,
             confidence |-> pt.score] >>

\* The name and the value of the price are computed.
NamedItem(pt, ridx, unit_ctx, vt, name_tokens, raw_price) ==
    EmitItem(pt, ridx, unit_ctx, vt, name_tokens,
             _build_name_from_left_tokens(name_tokens), raw_price,
             parse_price_value(raw_price))

ItemsForPrice(pt, rs, ridx) ==
    NamedItem(pt, ridx, _is_unit_price_context(rs[ridx]) \/ UnitPriceSearch(pt.text),
              ResolveVat(pt, rs, ridx), _find_name_tokens_for_price(pt, rs, ridx),
              PriceGroup0(pt.text))

build_items_from_rows(rs) ==
    LET RowItems(ridx) ==
            LET price_tokens == SelectSeq(rs[ridx], LAMBDA t : PriceSearch(t.text))
                RECURSIVE each(_)
                each(k) == IF k > Len(price_tokens) THEN <<>>
                           ELSE ItemsForPrice(price_tokens[k], rs, ridx) \o each(k + 1)
            IN  each(1)
        RECURSIVE all(_)
        all(ridx) == IF ridx > Len(rs) THEN <<>> ELSE RowItems(ridx) \o all(ridx + 1)
    IN  all(1)

\* ---------------------------------------------------- the token layouts

T_Milch == <<"M", "i", "l", "c", "h">>
T_Honig == <<"H", "o", "n", "i", "g">>
T_Gesamt == <<"G", "e", "s", "a", "m", "t">>
T_Qty == <<"2", " ", "x">>
T_EUR == <<"E", "U", "R">>
T_Bio == <<"B", "i", "o">>
T_A == <<"A">>
T_B == <<"B">>
T_249 == <<"2", ",", "4", "9">>
T_349 == <<"3", ",", "4", "9">>
T_1999 == <<"1", "9", ",", "9", "9">>
T_249A == <<"2", ",", "4", "9", " ", "A">>
T_PerKg == <<"2", ",", "4", "9", "/", "k", "g">>
T_099 == <<"0", ",", "9", "9">>
T_099A == <<"0", ",", "9", "9", " ", "A">>

\* The places of a receipt a token may stand at, each with the texts the
\* layouts put there: on the first line two name columns, the price column
\* and two tag columns right of the price (the second one 41 px away); on
\* the line below a name column and a price column; and a tall token with a
\* low tag, which group_rows puts into the price's row although the tag does
\* not overlap the price.
Slots ==
    << [box |-> <<0, 0, 80, 20>>, score |-> 90,
        texts |-> <<T_Milch, T_Honig, T_Gesamt, T_Qty, T_EUR>>],
       [box |-> <<100, 0, 120, 20>>, score |-> 90, texts |-> <<T_B, T_Bio>>],
       [box |-> <<200, 0, 240, 20>>, score |-> 95,
        texts |-> <<T_249, T_349, T_1999, T_249A, T_PerKg>>],
       [box |-> <<245, 0, 255, 20>>, score |-> 90, texts |-> <<T_A, T_B>>],
       [box |-> <<281, 0, 291, 20>>, score |-> NoScore, texts |-> <<T_A>>],
       [box |-> <<0, 24, 80, 44>>, score |-> 90, texts |-> <<T_Milch, T_Gesamt>>],
       [box |-> <<205, 24, 235, 44>>, score |-> 80, texts |-> <<T_A, T_099, T_099A>>],
       [box |-> <<0, 0, 80, 40>>, score |-> 90, texts |-> <<T_Honig>>],
       [box |-> <<245, 22, 255, 40>>, score |-> 90, texts |-> <<T_A, T_B>>] >>

\* The slots that are filled together: the two lines, or the line with the
\* tall token.
Families == {{1, 2, 3, 4, 5, 6, 7}, {1, 3, 4, 8, 9}}

\* A layout chooses for every slot of a family one of its texts, or 0 for no
\* token; its tokens are listed in the order of the slots.
RECURSIVE ChoicesFrom(_, _)
ChoicesFrom(k, family) ==
    IF k > Len(Slots) THEN {<<>>}
    ELSE {<<i>> \o r : i \in (IF k \in family THEN 0..Len(Slots[k].texts) ELSE {0}),
                       r \in ChoicesFrom(k + 1, family)}
LayoutChoices == UNION {ChoicesFrom(1, f) : f \in Families}
LayoutTokens(c) ==
    LET RECURSIVE go(_)
        go(k) == IF k > Len(Slots) THEN <<>>
                 ELSE (IF c[k] = 0 THEN <<>>
                       ELSE <<Tok(k, Slots[k].texts[c[k]], Slots[k].score, Slots[k].box)>>)
                      \o go(k + 1)
    IN  go(1)
Layouts == {LayoutTokens(c) : c \in LayoutChoices}

\* ------------------------------------------------------- token extraction

\* poly_to_bbox
poly_to_bbox(poly) ==
    << Min({poly[k][1] : k \in DOMAIN poly}), Min({poly[k][2] : k \in DOMAIN poly}),
       Max({poly[k][1] : k \in DOMAIN poly}), Max({poly[k][2] : k \in DOMAIN poly}) >>

\* The four corners of a box, as the OCR engine reports a text line.
Rect(x1, y1, x2, y2) == << <<x1, y1>>, <<x2, y1>>, <<x2, y2>>, <<x1, y2>> >>

\* One result of ocr.predict is [shape, texts, scores, polys]: a dict of the
\* parallel arrays rec_texts, rec_scores and rec_polys (shape "resjson", the
\* scores possibly absent), a list of [poly, (text, score)] pairs (shape
\* "pairs", given by the same three arrays), or anything else ("other").

\* extract_tokens_from_resjson, without the ids
extract_tokens_from_resjson(d) ==
    LET n == Min({Len(d.texts), Len(d.polys)}
                 \cup (IF d.scores # <<>> THEN {Len(d.scores)} ELSE {}))
        RECURSIVE go(_)
        go(i) ==
            IF i > n THEN <<>>
            ELSE (IF Len(d.polys[i]) < 4 THEN <<>>
                  ELSE << [text |-> d.texts[i],
                           score |-> IF d.scores # <<>> THEN d.scores[i] ELSE NoScore,
                           box |-> poly_to_bbox(d.polys[i])] >>)
                 \o go(i + 1)
    IN  IF d.texts = <<>> \/ d.polys = <<>> THEN <<>> ELSE go(1)

\* extract_tokens_from_generic for a result that is no dict
extract_tokens_from_generic(res) ==
    LET RECURSIVE go(_)
        go(i) ==
            IF i > Len(res.polys) THEN <<>>
            ELSE (IF res.polys[i] = <<>> THEN <<>>
                  ELSE << [text |-> res.texts[i], score |-> res.scores[i],
                           box |-> poly_to_bbox(res.polys[i])] >>)
                 \o go(i + 1)
    IN  IF res.shape = "pairs" THEN go(1) ELSE <<>>

\* The loop over results in process_image: the tokens of all results, in
\* order, each a new object.
CollectTokens(rs) ==
    LET RECURSIVE go(_)
        go(i) == IF i > Len(rs) THEN <<>>
                 ELSE (IF rs[i].shape = "resjson"
                       THEN extract_tokens_from_resjson(rs[i])
                       ELSE extract_tokens_from_generic(rs[i])) \o go(i + 1)
        found == go(1)
    IN  [k \in DOMAIN found |->
            Tok(k, found[k].text, found[k].score, found[k].box)]

\* The confidence filter of process_image.
FilterConfidence(toks, min_conf) ==
    IF min_conf > 0
    THEN SelectSeq(toks, LAMBDA t : t.score = NoScore \/ t.score >= min_conf)
    ELSE toks

DedupeOverlap == 60

\* The test of the dedupe loop: the new token t is dropped because of the
\* accepted token u.
IsDuplicateOf(t, u) ==
    /\ OverlapAbove(t.box, u.box, DedupeOverlap)
    /\ \/ Strip(t.text) = Strip(u.text)
       \/ Contains(u.text, Strip(t.text)) /\ Len(u.text) > Len(t.text)

\* The dedupe loop of process_image.
Dedupe(toks) ==
    LET RECURSIVE go(_)
        go(n) ==
            IF n = 0 THEN <<>>
            ELSE LET deduped == go(n - 1)
                 IN  IF \E j \in DOMAIN deduped : IsDuplicateOf(toks[n], deduped[j])
                     THEN deduped
                     ELSE Append(deduped, toks[n])
    IN  go(Len(toks))

\* "\n".join(texts)
JoinLines(texts) ==
    LET RECURSIVE go(_)
        go(k) == IF k > Len(texts) THEN <<>>
                 ELSE texts[k] \o (IF k < Len(texts) THEN <<"\n">> ELSE <<>>) \o go(k + 1)
    IN  go(1)

\* The record process_image writes when ocr.predict returned nothing.
EmptyPayload == [items |-> <<>>, itemCount |-> 0, text |-> <<>>]

\* The record process_image writes otherwise.
Payload(its, texts, toks) ==
    [items |-> its, itemCount |-> Len(its), text |-> JoinLines(texts),
     meta |-> [source |-> "image_path", tokenCount |-> Len(toks)]]

\* ------------------------------------------------- the OCR results

T_ab == <<"a", "b">>
T_ab_padded == <<" ", "a", "b">>
T_abc == <<"a", "b", "c">>

\* What the OCR engine may report for a text line, as [text, score, poly]:
\* the same line seen again a few pixels lower, in full, in part and padded,
\* once with only two corners, and a name with its price.
Detections ==
    { [text |-> T_abc, score |-> 90, poly |-> Rect(0, 0, 30, 20)],
      [text |-> T_ab, score |-> 90, poly |-> Rect(0, 0, 30, 20)],
      [text |-> T_ab, score |-> 40, poly |-> Rect(0, 4, 30, 24)],
      [text |-> T_ab_padded, score |-> 90, poly |-> Rect(0, 4, 30, 24)],
      [text |-> T_ab, score |-> 90, poly |-> Rect(0, 8, 30, 28)],
      [text |-> T_abc, score |-> 90, poly |-> << <<0, 8>>, <<30, 28>> >>],
      [text |-> T_Milch, score |-> 90, poly |-> Rect(0, 40, 80, 60)],
      [text |-> T_249A, score |-> 95, poly |-> Rect(200, 40, 240, 60)] }

DetectionSeqs == UNION {[1..n -> Detections] : n \in 0..MaxDetections}

\* The results ocr.predict may return for these detections: nothing, one
\* result of either shape (the dict with or without its scores), a result of
\* an unknown shape, or two results that split the detections.
ResultOf(shape, ds, withScores) ==
    [shape |-> shape,
     texts |-> [k \in DOMAIN ds |-> ds[k].text],
     scores |-> IF withScores THEN [k \in DOMAIN ds |-> ds[k].score] ELSE <<>>,
     polys |-> [k \in DOMAIN ds |-> ds[k].poly]]
OtherResult == [shape |-> "other", texts |-> <<>>, scores |-> <<>>, polys |-> <<>>]
PredictResults ==
    {<<>>, <<OtherResult>>}
    \cup {<<ResultOf("resjson", ds, TRUE)>> : ds \in DetectionSeqs}
    \cup {<<ResultOf("resjson", ds, FALSE)>> : ds \in DetectionSeqs}
    \cup {<<ResultOf("pairs", ds, TRUE)>> : ds \in DetectionSeqs}
    \cup {<<ResultOf("pairs", SubSeq(ds, 1, 1), TRUE),
            ResultOf("resjson", SubSeq(ds, 2, Len(ds)), TRUE)>> :
             ds \in DetectionSeqs \ {<<>>}}

\* ------------------------------------------------ OCRWrapper and main

\* cls._instance before the first engine is built: None.
NoEngine == [serial |-> 0]

\* PaddleOCR(...): a new engine object, serial telling the objects apart.
PaddleOCR(serial, det_name, rec_name, use_doc_orientation_classify, use_doc_unwarping) ==
    [serial |-> serial, lang |-> "de",
     text_detection_model_name |-> det_name,
     text_recognition_model_name |-> rec_name,
     use_doc_orientation_classify |-> use_doc_orientation_classify,
     use_doc_unwarping |-> use_doc_unwarping,
     use_textline_orientation |-> TRUE]

\* The engine OCRWrapper.get constructs for its arguments.
NewEngine(serial, model_tier, use_doc_orientation_classify, use_doc_unwarping) ==
    IF model_tier = "server"
    THEN PaddleOCR(serial, "PP-OCRv5_det", "PP-OCRv5_rec",
                   use_doc_orientation_classify, use_doc_unwarping)
    ELSE PaddleOCR(serial, "PP-OCRv5_mobile_det", "PP-OCRv5_mobile_rec",
                   use_doc_orientation_classify, use_doc_unwarping)

\* OCRWrapper.get with an engine rebuilt when the tier asked for is another.
OCRWrapper_get_Rebuild(inst, serial, model_tier, use_doc_orientation_classify, use_doc_unwarping) ==
    IF inst = NoEngine
       \/ inst.text_detection_model_name
              # NewEngine(serial, model_tier, TRUE, TRUE).text_detection_model_name
    THEN NewEngine(serial, model_tier, use_doc_orientation_classify, use_doc_unwarping)
    ELSE inst

\* OCRWrapper.get: the value of cls._instance after the call, which is what
\* the call returns; serial is the number a newly built engine gets.
OCRWrapper_get(inst, serial, model_tier, use_doc_orientation_classify, use_doc_unwarping) ==
    IF inst = NoEngine
    THEN NewEngine(serial, model_tier, use_doc_orientation_classify, use_doc_unwarping)
    ELSE inst

\* The arguments a caller may pass: model_tier is any string.
ModelTiers == {"mobile", "server", "tablet"}

\* sorted(targets), the image paths being numbers in path order
sorted(paths) ==
    LET RECURSIVE go(_)
        go(rest) == IF rest = {} THEN <<>>
                    ELSE <<Min(rest)>> \o go(rest \ {Min(rest)})
    IN  go(Range(paths))

\* Where the batch loop of main goes on after process_image returned for the
\* image at position i of n.
AfterReturn(i, n) == i + 1

\* Where the batch loop goes on after the except clause caught a failure of
\* the image at position i of n.
AfterException_Abort(i, n) == n + 1
AfterException(i, n) == i + 1

\* The images a path may hold, in the order glob lists them.
Images == 1..MaxImages
Globbed ==
    UNION {{f \in [1..n -> Images] : \A j, k \in 1..n : j # k => f[j] # f[k]} :
              n \in 0..MaxImages}

\* ------------------------------------------------ the inputs of group_rows

\* Boxes of text lines that overlap in part: two lines that stay apart, short
\* and tall boxes reaching into both, and boxes with the same top left corner.
RowBoxes ==
    { <<0, 0, 80, 20>>, <<0, 10, 80, 30>>, <<100, 10, 120, 20>>,
      <<100, 0, 120, 40>>, <<0, 22, 80, 40>>, <<0, 0, 60, 20>> }
RowTokens ==
    UNION {{[k \in 1..n |-> Tok(k, T_ab, 90, b[k])] : b \in [1..n -> RowBoxes]} :
              n \in 0..MaxRowTokens}

\* ------------------------------------------------- the tag-token inputs

VatAlphabet ==
    {"A", "b", "x", "l", "2", "8", "0", " ", "-", EuroSign, SharpS, CapitalAUmlaut,
     CombiningDiaeresis, GreekCapitalBeta, GreekSmallBeta, GreekCapitalOmega,
     CyrillicSmallZhe}
VatInputs == Strings(VatAlphabet, MaxVatLen)

\* ------------------------------------------------------------ idle parts

IdlePrice == raw = <<>> /\ value = NoValue /\ currency = None
IdleVat == txt = <<>> /\ vat = None
IdleImage ==
    /\ results = None /\ min_confidence = 0 /\ all_tokens = <<>> /\ all_texts = <<>>
    /\ rows = <<>> /\ items = <<>> /\ payload = None
IdleBatch ==
    /\ targets = <<>> /\ idx = 0 /\ attempted = <<>> /\ written = {} /\ failing = {}
    /\ instance = NoEngine /\ constructed = 0 /\ calls = <<>>

\* --------------------------------------- specification: parse_price_value

InitPrice ==
    /\ pc = "parse_price_value"
    /\ raw \in PriceInputs
    /\ value = NoValue /\ currency = None
    /\ IdleVat /\ IdleImage /\ IdleBatch

ParsePrice ==
    /\ pc = "parse_price_value"
    /\ value' = parse_price_value(raw)[1]
    /\ currency' = parse_price_value(raw)[2]
    /\ pc' = "parsed"
    /\ UNCHANGED <<raw, txt, vat, results, min_confidence, all_tokens, all_texts,
                   rows, items, payload, targets, idx, attempted, written, failing,
                   instance,
                   constructed, calls>>

NextPrice == ParsePrice
SpecPrice == InitPrice /\ [][NextPrice]_vars

\* ------------------------------------ specification: _normalize_vat_token

InitVat ==
    /\ pc = "_normalize_vat_token"
    /\ txt \in VatInputs
    /\ vat = None
    /\ IdlePrice /\ IdleImage /\ IdleBatch

NormalizeVat ==
    /\ pc = "_normalize_vat_token"
    /\ vat' = _normalize_vat_token(txt)
    /\ pc' = "normalized"
    /\ UNCHANGED <<raw, value, currency, txt, results, min_confidence, all_tokens,
                   all_texts, rows, items, payload, targets, idx, attempted, written,
                   failing, instance,
                   constructed, calls>>

NextVat == NormalizeVat
SpecVat == InitVat /\ [][NextVat]_vars

\* ---------------------- specification: group_rows and build_items_from_rows

InitItems ==
    /\ pc = "group_rows"
    /\ all_tokens \in Layouts
    /\ results = None /\ min_confidence = 0 /\ all_texts = <<>>
    /\ rows = <<>> /\ items = <<>> /\ payload = None
    /\ IdlePrice /\ IdleVat /\ IdleBatch

GroupRows ==
    /\ pc = "group_rows"
    /\ rows' = group_rows(all_tokens)
    /\ pc' = "build_items"
    /\ UNCHANGED <<raw, value, currency, txt, vat, results, min_confidence, all_tokens,
                   all_texts, items, payload, targets, idx, attempted, written,
                   failing, instance,
                   constructed, calls>>

BuildItems ==
    /\ pc = "build_items"
    /\ items' = build_items_from_rows(rows)
    /\ pc' = "built"
    /\ UNCHANGED <<raw, value, currency, txt, vat, results, min_confidence, all_tokens,
                   all_texts, rows, payload, targets, idx, attempted, written,
                   failing, instance,
                   constructed, calls>>

NextItems == GroupRows \/ BuildItems
SpecItems == InitItems /\ [][NextItems]_vars

\* ------------------------------------------- specification: process_image

InitImage ==
    /\ pc = "predict"
    /\ min_confidence \in {0, 50}
    /\ results = None /\ all_tokens = <<>> /\ all_texts = <<>>
    /\ rows = <<>> /\ items = <<>> /\ payload = None
    /\ IdlePrice /\ IdleVat /\ IdleBatch

\* ocr.predict returns.
Predict ==
    /\ pc = "predict"
    /\ \E r \in PredictResults : results' = r
    /\ pc' = "collect"
    /\ UNCHANGED <<raw, value, currency, txt, vat, min_confidence, all_tokens, all_texts,
                   rows, items, payload, targets, idx, attempted, written, failing,
                   instance,
                   constructed, calls>>

\* ocr.predict raises: process_image is left without a record.
PredictRaises ==
    /\ pc = "predict"
    /\ pc' = "raised"
    /\ UNCHANGED <<raw, value, currency, txt, vat, results, min_confidence, all_tokens,
                   all_texts, rows, items, payload, targets, idx, attempted, written,
                   failing, instance,
                   constructed, calls>>

\* "if not results": the short record is written and process_image returns.
WriteEmpty ==
    /\ pc = "collect"
    /\ results = <<>>
    /\ payload' = EmptyPayload
    /\ pc' = "written"
    /\ UNCHANGED <<raw, value, currency, txt, vat, results, min_confidence, all_tokens,
                   all_texts, rows, items, targets, idx, attempted, written, failing,
                   instance,
                   constructed, calls>>

\* The tokens are collected, filtered by confidence and deduplicated.
Normalize ==
    /\ pc = "collect"
    /\ results # <<>>
    /\ all_texts' = LET toks == CollectTokens(results)
                        kept == SelectSeq(toks, LAMBDA t : t.text # <<>>)
                    IN  [k \in DOMAIN kept |-> kept[k].text]
    /\ all_tokens' = Dedupe(FilterConfidence(CollectTokens(results), min_confidence))
    /\ pc' = "group_rows"
    /\ UNCHANGED <<raw, value, currency, txt, vat, results, min_confidence, rows, items,
                   payload, targets, idx, attempted, written, failing, instance,
                   constructed, calls>>

\* The record is written after group_rows and build_items_from_rows.
WritePayload ==
    /\ pc = "built"
    /\ payload' = Payload(items, all_texts, all_tokens)
    /\ pc' = "written"
    /\ UNCHANGED <<raw, value, currency, txt, vat, results, min_confidence, all_tokens,
                   all_texts, rows, items, targets, idx, attempted, written, failing,
                   instance,
                   constructed, calls>>

NextImage ==
    \/ Predict \/ PredictRaises \/ WriteEmpty \/ Normalize
    \/ GroupRows \/ BuildItems \/ WritePayload
SpecImage == InitImage /\ [][NextImage]_vars

\* --------------------------------------------------- specification: main

InitBatch ==
    /\ pc = "main"
    /\ targets = <<>> /\ idx = 0 /\ attempted = <<>> /\ written = {} /\ failing = {}
    /\ instance = NoEngine /\ constructed = 0 /\ calls = <<>>
    /\ IdlePrice /\ IdleVat /\ IdleImage

\* One call of OCRWrapper.get: cls._instance after it, the count of engines
\* built, and the record of the call.
GetCall(model_tier, use_doc_orientation_classify, use_doc_unwarping) ==
    /\ instance' = OCRWrapper_get(instance, constructed + 1, model_tier,
                                  use_doc_orientation_classify, use_doc_unwarping)
    /\ constructed' = IF instance'.serial > constructed THEN constructed + 1 ELSE constructed
    /\ calls' = Append(calls, [model_tier |-> model_tier,
                               use_doc_orientation_classify |-> use_doc_orientation_classify,
                               use_doc_unwarping |-> use_doc_unwarping,
                               returned |-> instance'])

\* ocr = OCRWrapper.get(model_tier=args.model_tier)
GetOcr ==
    /\ pc = "main"
    /\ \E model_tier \in {"mobile", "server"} : GetCall(model_tier, TRUE, TRUE)
    /\ pc' = "glob"
    /\ UNCHANGED <<raw, value, currency, txt, vat, results, min_confidence, all_tokens,
                   all_texts, rows, items, payload, targets, idx, attempted, written,
                   failing>>

\* The targets are listed; main returns when there are none.
CollectTargets ==
    /\ pc = "glob"
    /\ \E found \in Globbed :
           /\ targets' = found
           /\ pc' = IF found = <<>> THEN "returned" ELSE "loop"
    /\ idx' = 1
    /\ UNCHANGED <<raw, value, currency, txt, vat, results, min_confidence, all_tokens,
                   all_texts, rows, items, payload, attempted, written, failing,
                   instance,
                   constructed, calls>>

\* process_image returns for the next image of sorted(targets).
ProcessReturns ==
    /\ pc = "loop"
    /\ idx <= Len(targets)
    /\ attempted' = Append(attempted, sorted(targets)[idx])
    /\ written' = written \cup {sorted(targets)[idx]}
    /\ idx' = AfterReturn(idx, Len(targets))
    /\ UNCHANGED <<pc, raw, value, currency, txt, vat, results, min_confidence,
                   all_tokens, all_texts, rows, items, payload, targets, failing,
                   instance,
                   constructed, calls>>

\* process_image raises for the next image; the except clause logs it.
ProcessRaises ==
    /\ pc = "loop"
    /\ idx <= Len(targets)
    /\ attempted' = Append(attempted, sorted(targets)[idx])
    /\ failing' = failing \cup {sorted(targets)[idx]}
    /\ idx' = AfterException(idx, Len(targets))
    /\ UNCHANGED <<pc, raw, value, currency, txt, vat, results, min_confidence,
                   all_tokens, all_texts, rows, items, payload, targets, written,
                   instance,
                   constructed, calls>>

\* The loop is exhausted and main returns.
LoopEnds ==
    /\ pc = "loop"
    /\ idx > Len(targets)
    /\ pc' = "returned"
    /\ UNCHANGED <<raw, value, currency, txt, vat, results, min_confidence, all_tokens,
                   all_texts, rows, items, payload, targets, idx, attempted, written,
                   failing, instance,
                   constructed, calls>>

NextBatch == GetOcr \/ CollectTargets \/ ProcessReturns \/ ProcessRaises \/ LoopEnds
SpecBatch == InitBatch /\ [][NextBatch]_vars

\* --------------------------------------------- specification: group_rows

InitRows ==
    /\ pc = "group_rows"
    /\ all_tokens \in RowTokens
    /\ results = None /\ min_confidence = 0 /\ all_texts = <<>>
    /\ rows = <<>> /\ items = <<>> /\ payload = None
    /\ IdlePrice /\ IdleVat /\ IdleBatch

NextRows == GroupRows
SpecRows == InitRows /\ [][NextRows]_vars

\* ------------------------------------------ specification: OCRWrapper.get

InitOcr ==
    /\ pc = "OCRWrapper.get"
    /\ instance = NoEngine /\ constructed = 0 /\ calls = <<>>
    /\ targets = <<>> /\ idx = 0 /\ attempted = <<>> /\ written = {} /\ failing = {}
    /\ IdlePrice /\ IdleVat /\ IdleImage

\* A caller calls OCRWrapper.get, the calls following one another.
Get ==
    /\ pc = "OCRWrapper.get"
    /\ Len(calls) < MaxCalls
    /\ \E model_tier \in ModelTiers, orient \in BOOLEAN, unwarp \in BOOLEAN :
           GetCall(model_tier, orient, unwarp)
    /\ UNCHANGED <<pc, raw, value, currency, txt, vat, results, min_confidence,
                   all_tokens, all_texts, rows, items, payload, targets, idx, attempted,
                   written, failing>>

NextOcr == Get
SpecOcr == InitOcr /\ [][NextOcr]_vars

\* ================================================================ claims

\* C4: parse_price_value maps "12,99" to 1299 cents, "1.234,56" to 123456
\* cents and "12.99" to 1299 cents, returns no value for a string without a
\* digit, and returns the currency "EUR" for every input.
C4_ParsePriceExamples ==
    pc = "parsed" =>
        /\ currency = "EUR"
        /\ raw = <<"1", "2", ",", "9", "9">> => HasCents(value) /\ Cents(value) = 1299
        /\ raw = <<"1", ".", "2", "3", "4", ",", "5", "6">> =>
               HasCents(value) /\ Cents(value) = 123456
        /\ raw = <<"1", "2", ".", "9", "9">> => HasCents(value) /\ Cents(value) = 1299
        /\ (\A k \in DOMAIN raw : ~IsDigit(raw[k])) => ~value.some
C4_Witness ==
    /\ pc = "parsed"
    /\ raw = <<"1", ".", "2", "3", "4", ",", "5", "6">>
    /\ HasCents(value) /\ Cents(value) = 123456 /\ currency = "EUR"

\* The parts of C8 that the code and the claim agree on: the result is A, B,
\* C or none; it is the first character of the cleaned text that the table
\* maps to A, B or C; the empty string and digit-only text without 3 and 8
\* give none.
C8_Common ==
    LET c == Cleaned(Decomposed(Strip(txt)))
        hits == {k \in DOMAIN c : _map_char_to_abc(c[k]) \in {"A", "B", "C"}}
    IN  /\ vat \in {"A", "B", "C", None}
        /\ hits # {} => vat = _map_char_to_abc(c[Min(hits)])
        /\ txt = <<"A">> => vat = "A"
        /\ txt = <<"8">> => vat = "B"
        /\ txt = <<GreekCapitalBeta>> => vat = "B"
        /\ txt = <<>> => vat = None
        /\ (\A k \in DOMAIN txt : IsDigit(txt[k]) /\ txt[k] \notin {"3", "8"}) => vat = None

\* C8 as stated: as C8_Common, and B whenever the cleaned text is empty but
\* the original text contains a character that is not a digit.
C8_NormalizeVatAsStated ==
    pc = "normalized" =>
        /\ C8_Common
        /\ (Cleaned(Decomposed(Strip(txt))) = <<>> /\ \E k \in DOMAIN txt : ~IsDigit(txt[k]))
               => vat = "B"

\* C8 as amended: as C8_Common, and B whenever the cleaned text is empty but
\* the text, trimmed of whitespace and freed of combining marks, contains a
\* character that is not a digit; none for a text that is all whitespace.
C8_NormalizeVatAmended ==
    pc = "normalized" =>
        LET s == Decomposed(Strip(txt))
        IN  /\ C8_Common
            /\ (Cleaned(s) = <<>> /\ \E k \in DOMAIN s : ~IsDigit(s[k])) => vat = "B"
            /\ Strip(txt) = <<>> => vat = None
C8_Witness ==
    /\ pc = "normalized"
    /\ txt = <<" ", "-">>
    /\ Cleaned(Decomposed(Strip(txt))) = <<>>
    /\ vat = "B"

\* ------------------------------------------------- claims about the items

\* The price tokens of the rows, as <<row index, position in the row>>.
PriceCandidates ==
    {rk \in (DOMAIN rows) \X (1..Len(all_tokens)) :
        rk[2] <= Len(rows[rk[1]]) /\ PriceSearch(rows[rk[1]][rk[2]].text)}
\* The items emitted for the price token pt of row ridx.
ItemsOf(pt, ridx) ==
    {i \in DOMAIN items : items[i].rowIndex = ridx - 1 /\ items[i].priceBox = pt.box}

\* C1: every item emitted by build_items_from_rows carries a vatTag that is
\* A, B or C, and a price candidate for which neither the inline nor the
\* nearby search resolves a tag produces no item.
C1_ItemsCarryTag ==
    pc = "built" =>
        /\ \A i \in DOMAIN items : items[i].price.vatTag \in {"A", "B", "C"}
        /\ \A rk \in PriceCandidates :
               LET pt == rows[rk[1]][rk[2]]
               IN  (/\ _has_inline_vat_tag(pt.text) = None
                    /\ _nearby_vat_tag_for_price_rows(pt, rows, rk[1]) = None)
                   => ItemsOf(pt, rk[1]) = {}
C1_Witness ==
    /\ pc = "built"
    /\ items # <<>>
    /\ \E rk \in PriceCandidates :
           LET pt == rows[rk[1]][rk[2]]
               name_tokens == _find_name_tokens_for_price(pt, rows, rk[1])
           IN  /\ _has_inline_vat_tag(pt.text) = None
               /\ _nearby_vat_tag_for_price_rows(pt, rows, rk[1]) = None
               /\ name_tokens # <<>>
               /\ ~_is_bad_name(_build_name_from_left_tokens(name_tokens))
               /\ ItemsOf(pt, rk[1]) = {}

\* C2: for a price token without a trailing letter A/B/C the tag of the
\* emitted item is the one resolved from the nearby tokens; a row of the
\* name Milch, a price and a tag letter X just right of the price yields
\* exactly one item, named Milch, with the parsed price and vatTag X,
\* whatever digits the price contains.
C2_TagFromNearbyTokens ==
    pc = "built" =>
        /\ \A rk \in PriceCandidates :
               LET pt == rows[rk[1]][rk[2]]
               IN  PriceWithVatGroup2(pt.text) = None =>
                       \A i \in ItemsOf(pt, rk[1]) :
                           items[i].price.vatTag
                               = _nearby_vat_tag_for_price_rows(pt, rows, rk[1])
        /\ \A price \in {T_249, T_349, T_1999}, x \in {T_A, T_B} :
               all_tokens = << Tok(1, T_Milch, 90, <<0, 0, 80, 20>>),
                               Tok(3, price, 95, <<200, 0, 240, 20>>),
                               Tok(4, x, 90, <<245, 0, 255, 20>>) >>
               => /\ Len(items) = 1
                  /\ items[1].name = T_Milch
                  /\ items[1].price.value = parse_price_value(price)[1]
                  /\ items[1].price.vatTag = x[1]

\* The words of a text, in lower case: its maximal runs of word characters.
WordsOf(s) ==
    {Slice(LowerStr(s), a, b) : <<a, b>> \in {ab \in (DOMAIN s) \X (DOMAIN s) :
        /\ ab[1] <= ab[2]
        /\ \A k \in ab[1]..ab[2] : IsWordChar(s[k])
        /\ ~WordAt(s, ab[1] - 1)
        /\ ~WordAt(s, ab[2] + 1)}}

\* C3: no item has a name that is empty, equals EUR or the euro sign, holds a
\* blacklisted keyword as a whole word, or is a quantity expression of at
\* most three words; the row Gesamt / 19,99 / B yields no item; and a price
\* candidate whose own tag, name and value pass is emitted whatever the other
\* candidates' names are.
C3_NoRejectedNames ==
    pc = "built" =>
        /\ \A i \in DOMAIN items :
               LET n == items[i].name
               IN  /\ n # <<>>
                   /\ UpperStr(n) \notin {<<"E", "U", "R">>, <<EuroSign>>}
                   /\ WordsOf(n) \cap BadWords = {}
                   /\ ~BadKeywordSearch(n)
                   /\ ~(QtyOnlyMatch(n) /\ WordCount(n) <= 3)
        /\ all_tokens = << Tok(1, T_Gesamt, 90, <<0, 0, 80, 20>>),
                           Tok(3, T_1999, 95, <<200, 0, 240, 20>>),
                           Tok(4, T_B, 90, <<245, 0, 255, 20>>) >>
               => items = <<>>
        /\ \A rk \in PriceCandidates :
               LET pt == rows[rk[1]][rk[2]]
                   name_tokens == _find_name_tokens_for_price(pt, rows, rk[1])
                   n == _build_name_from_left_tokens(name_tokens)
               IN  (/\ ResolveVat(pt, rows, rk[1]) # None
                    /\ ~_is_unit_price_context(rows[rk[1]])
                    /\ name_tokens # <<>>
                    /\ n # <<>>
                    /\ UpperStr(n) \notin {<<"E", "U", "R">>, <<EuroSign>>}
                    /\ ~BadKeywordSearch(n)
                    /\ ~(QtyOnlyMatch(n) /\ WordCount(n) <= 3))
                   => \E i \in ItemsOf(pt, rk[1]) : items[i].name = n
C3_Witness ==
    /\ pc = "built"
    /\ Len(items) = 1
    /\ items[1].name = T_Milch
    /\ \E rk \in PriceCandidates :
           LET pt == rows[rk[1]][rk[2]]
               name_tokens == _find_name_tokens_for_price(pt, rows, rk[1])
           IN  /\ ResolveVat(pt, rows, rk[1]) # None
               /\ _build_name_from_left_tokens(name_tokens) = T_Gesamt
               /\ ItemsOf(pt, rk[1]) = {}

\* C9: in the same-row step a token supplies the tag only if its text
\* resolves to a tag, its left edge is at most 40 px away from the price's
\* right edge and it overlaps the price box vertically by at least 0.15; among
\* such tokens the one nearest to the price centre wins, so the step gives no
\* tag when no token of the row passes.
C9_SameRowTagWithin40px ==
    pc \in {"build_items", "built"} =>
        \A rk \in PriceCandidates :
            LET row == rows[rk[1]]
                pt == row[rk[2]]
                dist(j) == Abs(Centre2(row[j].box) - Centre2(pt.box))
                elig == {j \in DOMAIN row :
                            /\ row[j].id # pt.id
                            /\ _normalize_vat_token(row[j].text) # None
                            /\ Abs(row[j].box[1] - pt.box[3]) <= 40
                            /\ OverlapAtLeast(pt.box, row[j].box, 15)}
                near == CHOOSE j \in elig : \A m \in elig :
                            dist(j) < dist(m) \/ (dist(j) = dist(m) /\ j <= m)
            IN  SameRowTag(pt, row)
                    = IF elig = {} THEN None ELSE _normalize_vat_token(row[near].text)

\* C10: for every item priceBox is the box of the price token and nameBox
\* is the union bounding box of exactly the tokens whose texts are joined
\* into the name, the tokens skipped during name assembly left out.
C10_NameBoxOfNameParts ==
    pc = "built" =>
        \A i \in DOMAIN items :
            \E rk \in PriceCandidates :
                LET pt == rows[rk[1]][rk[2]]
                    parts == NameParts(_find_name_tokens_for_price(pt, rows, rk[1]))
                IN  /\ items[i].rowIndex = rk[1] - 1
                    /\ items[i].priceBox = pt.box
                    /\ parts # <<>>
                    /\ items[i].name = _build_name_from_left_tokens(parts)
                    /\ items[i].nameBox = UnionBox(parts)

\* ---------------------------------------------------------------- C5
\* The tokens the dedupe loop of process_image visits, in order.
DedupeInput == FilterConfidence(CollectTokens(results), min_confidence)
Retained(k) == \E j \in DOMAIN all_tokens : all_tokens[j].id = DedupeInput[k].id
SameLine(j, k) ==
    /\ OverlapAbove(DedupeInput[k].box, DedupeInput[j].box, DedupeOverlap)
    /\ Strip(DedupeInput[j].text) = Strip(DedupeInput[k].text)

\* C5: a token is dropped exactly when an accepted earlier token
\* overlaps it by more than 0.6 and has the same trimmed text or a strictly
\* longer trimmed text containing it; and of two tokens with more than 0.6
\* overlap and the same trimmed text exactly the earlier one is retained.
C5_DedupeDropRule ==
    (pc \in {"group_rows", "build_items", "built", "written"} /\ results # <<>>) =>
        /\ \A k \in DOMAIN DedupeInput :
               (~Retained(k)) <=>
                   \E j \in 1..(k - 1) :
                       /\ Retained(j)
                       /\ OverlapAbove(DedupeInput[k].box, DedupeInput[j].box, DedupeOverlap)
                       /\ \/ Strip(DedupeInput[k].text) = Strip(DedupeInput[j].text)
                          \/ /\ Contains(Strip(DedupeInput[j].text), Strip(DedupeInput[k].text))
                             /\ Len(Strip(DedupeInput[j].text)) > Len(Strip(DedupeInput[k].text))
        /\ \A k \in DOMAIN DedupeInput : \A j \in 1..(k - 1) :
               SameLine(j, k) => Retained(j) /\ ~Retained(k)

\* ---------------------------------------------------------------- C7
\* C7: every record process_image writes has items, itemCount, text and meta
\* with source and tokenCount, itemCount being the number of items and
\* tokenCount the number of tokens left after filtering and deduplication.
C7_RecordComplete ==
    pc = "written" =>
        /\ {"items", "itemCount", "text", "meta"} \subseteq DOMAIN payload
        /\ {"source", "tokenCount"} \subseteq DOMAIN payload.meta
        /\ payload.itemCount = Len(payload.items)
        /\ payload.meta.tokenCount = Len(all_tokens)

\* ---------------------------------------------------------------- C6
\* C6: whatever images fail, the batch loop attempts the targets in sorted
\* order without repetition, every attempted image has either failed or
\* got its record, and when main returns every target has been attempted
\* exactly once.
C6_EveryTargetAttemptedOnce ==
    (pc \in {"loop", "returned"}) =>
        /\ \A j, k \in DOMAIN attempted : j < k => attempted[j] < attempted[k]
        /\ Range(attempted) \subseteq Range(targets)
        /\ Range(attempted) = written \cup failing
        /\ pc = "returned" =>
               \A k \in DOMAIN targets :
                   Cardinality({j \in DOMAIN attempted : attempted[j] = targets[k]}) = 1

\* The first image of an unsorted listing failed, and the later ones were
\* still processed.
C6_Witness ==
    /\ pc = "returned"
    /\ Len(targets) >= 2
    /\ targets[1] > targets[2]
    /\ attempted[1] \in failing
    /\ attempted[Len(attempted)] \in written
    /\ Len(attempted) = Len(targets)

\* ---------------------------------------------------------------- C11
\* The places <<row, position>> of the rows, and those holding the token t.
RowPlaces == {rk \in (DOMAIN rows) \X (1..Len(all_tokens)) : rk[2] <= Len(rows[rk[1]])}
PlacesOf(t) == {rk \in RowPlaces : rows[rk[1]][rk[2]].id = t.id}
RowOf(t) == CHOOSE r \in DOMAIN rows : \E rk \in PlacesOf(t) : rk[1] = r
\* u is visited before t: by top edge, then left edge, then input order.
VisitedBefore(u, t) ==
    \/ u.box[2] < t.box[2]
    \/ u.box[2] = t.box[2] /\ u.box[1] < t.box[1]
    \/ u.box[2] = t.box[2] /\ u.box[1] = t.box[1] /\ u.id < t.id
\* The tokens row r holds at the moment t is visited, and their bounding box.
HeldBefore(r, t) ==
    {u \in Range(all_tokens) : PlacesOf(u) # {} /\ RowOf(u) = r /\ VisitedBefore(u, t)}
BoxAround(S) ==
    << Min({u.box[1] : u \in S}), Min({u.box[2] : u \in S}),
       Max({u.box[3] : u \in S}), Max({u.box[4] : u \in S}) >>
ExistingRows(t) == {r \in DOMAIN rows : HeldBefore(r, t) # {}}
FittingRows(t) ==
    {r \in ExistingRows(t) :
        OverlapAtLeast(t.box, BoxAround(HeldBefore(r, t)), OverlapThresh)}

\* C11: group_rows visits the tokens by (top, left); each token is in the
\* lowest-index row existing at its visit whose bounding box it overlaps by
\* at least 0.45, or else in a new row after all existing ones; every token
\* is in exactly one row, no row is empty, and each row is ordered by x1.
C11_RowsPlacement ==
    pc = "build_items" =>
        /\ \A k \in DOMAIN all_tokens : Cardinality(PlacesOf(all_tokens[k])) = 1
        /\ \A rk \in RowPlaces : rows[rk[1]][rk[2]] \in Range(all_tokens)
        /\ \A r \in DOMAIN rows : rows[r] # <<>>
        /\ \A r \in DOMAIN rows : \A j, k \in DOMAIN rows[r] :
               j < k => rows[r][j].box[1] <= rows[r][k].box[1]
        /\ \A k \in DOMAIN all_tokens :
               LET t == all_tokens[k]
               IN  IF FittingRows(t) # {}
                   THEN RowOf(t) = Min(FittingRows(t))
                   ELSE \A r \in ExistingRows(t) : r < RowOf(t)

\* A token overlaps two existing rows enough and is in the first of them.
C11_Witness ==
    /\ pc = "build_items"
    /\ Len(rows) = 2
    /\ \E k \in DOMAIN all_tokens :
           /\ FittingRows(all_tokens[k]) = {1, 2}
           /\ RowOf(all_tokens[k]) = 1

\* ---------------------------------------------------------------- C12
\* C12: over the calls of OCRWrapper.get made so far, at most one engine has
\* been constructed, it was constructed by the first call from that call's
\* arguments, and every call returned that one engine.
C12_OneEngine ==
    pc = "OCRWrapper.get" =>
        /\ constructed <= 1
        /\ calls # <<>> =>
               /\ constructed = 1
               /\ calls[1].returned =
                      NewEngine(1, calls[1].model_tier, calls[1].use_doc_orientation_classify,
                                calls[1].use_doc_unwarping)
               /\ \A k \in DOMAIN calls : calls[k].returned = calls[1].returned
               /\ instance = calls[1].returned

\* A server engine was built first; later calls asked for the mobile tier
\* with other flags and got the server engine.
C12_Witness ==
    /\ pc = "OCRWrapper.get"
    /\ Len(calls) = 3
    /\ calls[1].model_tier = "server"
    /\ calls[3].model_tier = "mobile"
    /\ calls[3].use_doc_unwarping # calls[1].use_doc_unwarping
    /\ calls[3].returned.text_detection_model_name = "PP-OCRv5_det"

\* ---------------------------------------------------------------- C13
\* raw is a match of PRICE_CORE from its first to its last character.
IsPriceCore(s) == \E c \in PriceCoreCands(s, 1) : c.end = Len(s) + 1
\* The digits of s, its separators removed.
DigitsOf(s) == SelectSeq(s, IsDigit)

\* C13: for every text the price pattern matches, parse_price_value returns
\* a value, not negative, whose whole part is the digits before the last
\* separator with the group separators removed and whose cents are the last
\* two digits, whichever of . and , groups and whichever is the decimal point.
C13_PriceCents ==
    (pc = "parsed" /\ IsPriceCore(raw)) =>
        /\ currency = "EUR"
        /\ value = Float(FALSE, DigitsOf(SubSeq(raw, 1, Len(raw) - 3)),
                         SubSeq(raw, Len(raw) - 1, Len(raw)))


====
